---- MODULE Spec2Model ----
(***************************************************************************)
(* go-start-stop: three Services (a, b, c), each run in its own goroutine, *)
(* supervised by main: a retry loop that multiplexes over the three error  *)
(* channels and the signal channel, then Stop on every service, then one   *)
(* final receive per service.                                              *)
(*                                                                         *)
(* The n-th call of Start creates the n-th context, the n-th error channel *)
(* and the n-th goroutine; runs[n] holds the three of them.  Time is       *)
(* counted in seconds and advances from one timer expiry to the next.      *)
(***************************************************************************)
EXTENDS Integers, Sequences, FiniteSets

Services == <<"a", "b", "c">>
Svc == {"a", "b", "c"}

\* variant: the timeouts of a and b exchanged
timeoutSwapped == [a |-> 2, b |-> 3, c |-> 5]

\* time.Second*3, time.Second*2, time.Second*5
timeout == [a |-> 3, b |-> 2, c |-> 5]

\* time.Hour * 1000, in seconds
CleanTimeout == 3600000

\* for retries := 2; ...
R == 2

\* number of Start calls an arbitrary owner of the Services makes
MaxStarts == 2

VARIABLES
    clean,      \* the -clean flag
    pc,         \* position of main (or "client": an arbitrary owner of the Services)
    idx,        \* which of a, b, c the start / stop / drain sequence is at
    retries,    \* the loop variable
    cur,        \* the select case taken in this iteration ("" when none)
    handle,     \* ac, bc, cc: the channel main holds per service (0: none yet)
    svcCtx,     \* s.ctx / s.cancel per service (0: nil)
    runs,       \* per Start call: its goroutine, its context, its channel
    sigc,       \* number of signals buffered in sigc (capacity 1)
    panicked,   \* the process died of a runtime panic
    sigTaken,   \* history: the loop received from sigc
    events,     \* history: what main did, in order
    drained     \* history: what each final receive returned

vars == <<clean, pc, idx, retries, cur, handle, svcCtx, runs, sigc,
          panicked, sigTaken, events, drained>>

Min(S) == CHOOSE x \in S : \A y \in S : x <= y

\* the process runs until main returns or a goroutine panics
Alive == ~panicked /\ pc # "done"

RunIds == 1..Len(runs)

----------------------------------------------------------------------------
(* Service *)

\* New: name and timeout set, ctx and cancel left nil
New == [s \in Svc |-> 0]

\* the goroutine, context and channel one call of Start creates
NewRun(s) ==
    [svc |-> s, pc |-> "start", ctx |-> 0, remaining |-> -1,
     cancelled |-> FALSE, closed |-> FALSE, sends |-> 0, closes |-> 0,
     outcome |-> "none"]

\* variant: the context made once and kept over restarts
StartCtxReuse(s) ==
    IF svcCtx[s] = 0 THEN [svcCtx EXCEPT ![s] = Len(runs) + 1] ELSE svcCtx

\* Start: fresh context into s.ctx/s.cancel, fresh channel, go func
StartRuns(s) == Append(runs, NewRun(s))
StartCtx(s) == [svcCtx EXCEPT ![s] = Len(runs) + 1]
StartHandle(s) == Len(runs) + 1

\* variant: Stop that does not cancel
StopRunsNoCancel(s) == runs

\* Stop: s.cancel(); calling a nil func panics
StopPanics(s) == svcCtx[s] = 0
StopRuns(s) ==
    IF svcCtx[s] = 0 THEN runs
    ELSE [runs EXCEPT ![svcCtx[s]].cancelled = TRUE]

\* variant: the -clean flag not looked at
FailAfterIgnoresClean(s) == timeout[s]

\* duration of the timer run() waits on
FailAfter(s) == IF clean THEN CleanTimeout ELSE timeout[s]

\* run(): failc := time.After(...), then the select is entered on it and on
\* s.ctx.Done(), s.ctx being read from the Service at that moment
WorkerBegin(r) ==
    /\ Alive
    /\ runs[r].pc = "start"
    /\ runs' = [runs EXCEPT ![r].pc = "select",
                            ![r].remaining = FailAfter(runs[r].svc),
                            ![r].ctx = svcCtx[runs[r].svc]]
    /\ UNCHANGED <<clean, pc, idx, retries, cur, handle, svcCtx, sigc,
                   panicked, sigTaken, events, drained>>

\* variant: the timer case falls through to return nil
WorkerTimeoutReturnsNil(r) ==
    /\ Alive
    /\ runs[r].pc = "select"
    /\ runs[r].remaining = 0
    /\ runs' = [runs EXCEPT ![r].pc = "close", ![r].outcome = "nil"]
    /\ UNCHANGED <<clean, pc, idx, retries, cur, handle, svcCtx, sigc,
                   panicked, sigTaken, events, drained>>

\* case <-failc: return fmt.Errorf(...); the goroutine then blocks in errc <- err
WorkerTimeout(r) ==
    /\ Alive
    /\ runs[r].pc = "select"
    /\ runs[r].remaining = 0
    /\ runs' = [runs EXCEPT ![r].pc = "send", ![r].outcome = "err"]
    /\ UNCHANGED <<clean, pc, idx, retries, cur, handle, svcCtx, sigc,
                   panicked, sigTaken, events, drained>>

\* variant: the send abandoned on cancellation
\* (select { case errc <- err: case <-s.ctx.Done(): })
WorkerCancelledReleasesSend(r) ==
    /\ Alive
    /\ runs[r].pc \in {"select", "send"}
    /\ runs[r].ctx # 0
    /\ runs[runs[r].ctx].cancelled
    /\ runs' = [runs EXCEPT ![r].pc = "close",
                            ![r].outcome = IF runs[r].pc = "send"
                                           THEN "err" ELSE "nil"]
    /\ UNCHANGED <<clean, pc, idx, retries, cur, handle, svcCtx, sigc,
                   panicked, sigTaken, events, drained>>

\* variant: errc <- err without the err != nil test
WorkerCancelledSendsNil(r) ==
    /\ Alive
    /\ runs[r].pc = "select"
    /\ runs[r].ctx # 0
    /\ runs[runs[r].ctx].cancelled
    /\ runs' = [runs EXCEPT ![r].pc = "send", ![r].outcome = "nil"]
    /\ UNCHANGED <<clean, pc, idx, retries, cur, handle, svcCtx, sigc,
                   panicked, sigTaken, events, drained>>

\* case <-s.ctx.Done(): return nil; nothing is sent
WorkerCancelled(r) ==
    /\ Alive
    /\ runs[r].pc = "select"
    /\ runs[r].ctx # 0
    /\ runs[runs[r].ctx].cancelled
    /\ runs' = [runs EXCEPT ![r].pc = "close", ![r].outcome = "nil"]
    /\ UNCHANGED <<clean, pc, idx, retries, cur, handle, svcCtx, sigc,
                   panicked, sigTaken, events, drained>>

\* variant: the goroutine returns without close(errc)
WorkerCloseForgotten(r) ==
    /\ Alive
    /\ runs[r].pc = "close"
    /\ runs' = [runs EXCEPT ![r].pc = "done"]
    /\ UNCHANGED <<clean, pc, idx, retries, cur, handle, svcCtx, sigc,
                   panicked, sigTaken, events, drained>>

\* defer close(errc); closing a closed channel panics
WorkerClose(r) ==
    /\ Alive
    /\ runs[r].pc = "close"
    /\ runs' = [runs EXCEPT ![r].pc = "done", ![r].closed = TRUE,
                            ![r].closes = @ + 1]
    /\ panicked' = (panicked \/ runs[r].closed)
    /\ UNCHANGED <<clean, pc, idx, retries, cur, handle, svcCtx, sigc,
                   sigTaken, events, drained>>

----------------------------------------------------------------------------
(* channel receive: errc is unbuffered, so a receive pairs with the sender *)
(* blocked in errc <- err, or returns nil at once on a closed channel      *)

\* variant: a receive that does not wait (select with a default case)
CanRecvNonBlocking(h) == h # 0

CanRecv(h) == h # 0 /\ (runs[h].pc = "send" \/ runs[h].closed)
\* variant: a closed channel hands out the error it carried once more
RecvValSticky(h) ==
    IF runs[h].pc = "send" \/ runs[h].outcome = "err" THEN "err" ELSE "nil"

RecvVal(h) == IF runs[h].pc = "send" THEN "err" ELSE "nil"
RecvRuns(h) ==
    IF runs[h].pc = "send"
    THEN [runs EXCEPT ![h].pc = "close", ![h].sends = @ + 1]
    ELSE runs

----------------------------------------------------------------------------
(* time *)

Waiting == {r \in RunIds : runs[r].pc = "select" /\ runs[r].remaining > 0}
NextExpiry == Min({runs[r].remaining : r \in Waiting})

\* a goroutine that go func() has started but that has not reached its select
Starting == {r \in RunIds : runs[r].pc = "start"}

\* time passes until the next pending timer expires; a started goroutine
\* reaches its select before that
Tick ==
    /\ Alive
    /\ Waiting # {}
    /\ Starting = {}
    /\ runs' = [r \in RunIds |->
                  IF r \in Waiting
                  THEN [runs[r] EXCEPT !.remaining = @ - NextExpiry]
                  ELSE runs[r]]
    /\ UNCHANGED <<clean, pc, idx, retries, cur, handle, svcCtx, sigc,
                   panicked, sigTaken, events, drained>>

----------------------------------------------------------------------------
(* main *)

Event(k, s, v) == [kind |-> k, svc |-> s, val |-> v]

Init ==
    /\ clean \in BOOLEAN
    /\ pc = "start"
    /\ idx = 1
    /\ retries = R
    /\ cur = ""
    /\ handle = [s \in Svc |-> 0]
    /\ svcCtx = New
    /\ runs = <<>>
    /\ sigc = 0
    /\ panicked = FALSE
    /\ sigTaken = FALSE
    /\ events = <<>>
    /\ drained = [s \in Svc |-> "pending"]

\* ac := a.Start(); bc := b.Start(); cc := c.Start()
MainStart ==
    /\ Alive
    /\ pc = "start"
    /\ runs' = StartRuns(Services[idx])
    /\ svcCtx' = StartCtx(Services[idx])
    /\ handle' = [handle EXCEPT ![Services[idx]] = StartHandle(Services[idx])]
    /\ IF idx < 3
       THEN idx' = idx + 1 /\ pc' = "start"
       ELSE idx' = 1 /\ pc' = "notify"
    /\ UNCHANGED <<clean, retries, cur, sigc, panicked, sigTaken, events,
                   drained>>

\* sigc := make(chan os.Signal, 1); signal.Notify(sigc, SIGTERM, SIGINT)
MainNotify ==
    /\ Alive
    /\ pc = "notify"
    /\ pc' = IF retries >= 0 THEN "loop" ELSE "stop"
    /\ UNCHANGED <<clean, idx, retries, cur, handle, svcCtx, runs, sigc,
                   panicked, sigTaken, events, drained>>

\* the OS delivers SIGTERM or SIGINT: a non-blocking send into sigc,
\* dropped when the buffer is full.  Only a delivery that the next select
\* of the loop can see is modelled: sigc is read nowhere else.
Signal ==
    /\ Alive
    /\ pc = "loop"
    /\ sigc' = IF sigc < 1 THEN sigc + 1 ELSE sigc
    /\ UNCHANGED <<clean, pc, idx, retries, cur, handle, svcCtx, runs,
                   panicked, sigTaken, events, drained>>

\* variant: the loop condition written retries >= -1
AfterIterationExtra == IF retries - 1 >= -1 THEN "loop" ELSE "stop"

\* variant: the loop condition written retries > 0
AfterIterationStrict == IF retries - 1 > 0 THEN "loop" ELSE "stop"

\* end of an iteration: log "(%v retries remaining)", retries--, and the
\* loop condition retries >= 0
AfterIteration == IF retries - 1 >= 0 THEN "loop" ELSE "stop"

\* variant: the restart not guarded by retries > 0
LoopRecvAlwaysRestarts(s) ==
    /\ Alive
    /\ pc = "loop"
    /\ CanRecv(handle[s])
    /\ runs' = RecvRuns(handle[s])
    /\ events' = Append(events, Event("recv", s, RecvVal(handle[s])))
    /\ cur' = s /\ pc' = "restart" /\ retries' = retries
    /\ UNCHANGED <<clean, idx, handle, svcCtx, sigc, panicked, sigTaken,
                   drained>>

\* select: case err := <-ac / <-bc / <-cc, log the error; without retries
\* left the iteration ends here
LoopRecv(s) ==
    /\ Alive
    /\ pc = "loop"
    /\ CanRecv(handle[s])
    /\ runs' = RecvRuns(handle[s])
    /\ events' = Append(events, Event("recv", s, RecvVal(handle[s])))
    /\ IF retries > 0
       THEN cur' = s /\ pc' = "restart" /\ retries' = retries
       ELSE cur' = "" /\ pc' = AfterIteration /\ retries' = retries - 1
    /\ UNCHANGED <<clean, idx, handle, svcCtx, sigc, panicked, sigTaken,
                   drained>>

\* variant: every case restarts a (bc = a.Start(), cc = a.Start())
LoopRestartWrongService ==
    /\ Alive
    /\ pc = "restart"
    /\ runs' = StartRuns("a")
    /\ svcCtx' = StartCtx("a")
    /\ handle' = [handle EXCEPT ![cur] = StartHandle("a")]
    /\ events' = Append(events, Event("restart", cur, "nil"))
    /\ cur' = ""
    /\ pc' = AfterIteration
    /\ retries' = retries - 1
    /\ UNCHANGED <<clean, idx, sigc, panicked, sigTaken, drained>>

\* if retries > 0 { ac = a.Start() }, and the iteration ends
LoopRestart ==
    /\ Alive
    /\ pc = "restart"
    /\ runs' = StartRuns(cur)
    /\ svcCtx' = StartCtx(cur)
    /\ handle' = [handle EXCEPT ![cur] = StartHandle(cur)]
    /\ events' = Append(events, Event("restart", cur, "nil"))
    /\ cur' = ""
    /\ pc' = AfterIteration
    /\ retries' = retries - 1
    /\ UNCHANGED <<clean, idx, sigc, panicked, sigTaken, drained>>

\* variant: break without the label, which leaves the select only
LoopSignalPlainBreak ==
    /\ Alive
    /\ pc = "loop"
    /\ sigc > 0
    /\ sigc' = sigc - 1
    /\ sigTaken' = TRUE
    /\ events' = Append(events, Event("signal", "", "nil"))
    /\ pc' = AfterIteration
    /\ retries' = retries - 1
    /\ UNCHANGED <<clean, idx, cur, handle, svcCtx, runs, panicked, drained>>

\* select: case sig := <-sigc: break retryLoop
LoopSignal ==
    /\ Alive
    /\ pc = "loop"
    /\ sigc > 0
    /\ sigc' = sigc - 1
    /\ sigTaken' = TRUE
    /\ events' = Append(events, Event("signal", "", "nil"))
    /\ pc' = "stop"
    /\ UNCHANGED <<clean, idx, retries, cur, handle, svcCtx, runs, panicked,
                   drained>>

\* variant: c.Stop() left out
MainStopSkipsLast ==
    /\ Alive
    /\ pc = "stop"
    /\ runs' = StopRuns(Services[idx])
    /\ panicked' = StopPanics(Services[idx])
    /\ events' = Append(events, Event("stop", Services[idx], "nil"))
    /\ IF idx < 2
       THEN idx' = idx + 1 /\ pc' = "stop"
       ELSE idx' = 1 /\ pc' = "drain"
    /\ UNCHANGED <<clean, retries, cur, handle, svcCtx, sigc, sigTaken,
                   drained>>

\* a.Stop(); b.Stop(); c.Stop()
MainStop ==
    /\ Alive
    /\ pc = "stop"
    /\ runs' = StopRuns(Services[idx])
    /\ panicked' = StopPanics(Services[idx])
    /\ events' = Append(events, Event("stop", Services[idx], "nil"))
    /\ IF idx < 3
       THEN idx' = idx + 1 /\ pc' = "stop"
       ELSE idx' = 1 /\ pc' = "drain"
    /\ UNCHANGED <<clean, retries, cur, handle, svcCtx, sigc, sigTaken,
                   drained>>

\* variant: the receive from cc left out
MainDrainSkipsLast ==
    /\ Alive
    /\ pc = "drain"
    /\ CanRecv(handle[Services[idx]])
    /\ runs' = RecvRuns(handle[Services[idx]])
    /\ drained' = [drained EXCEPT ![Services[idx]] = RecvVal(handle[Services[idx]])]
    /\ events' = Append(events, Event("drain", Services[idx],
                                      RecvVal(handle[Services[idx]])))
    /\ IF idx < 2
       THEN idx' = idx + 1 /\ pc' = "drain"
       ELSE idx' = 1 /\ pc' = "done"
    /\ UNCHANGED <<clean, retries, cur, handle, svcCtx, sigc, panicked,
                   sigTaken>>

\* if err := <-ac; err != nil {...}; then bc, then cc; then main returns
MainDrain ==
    /\ Alive
    /\ pc = "drain"
    /\ CanRecv(handle[Services[idx]])
    /\ runs' = RecvRuns(handle[Services[idx]])
    /\ drained' = [drained EXCEPT ![Services[idx]] = RecvVal(handle[Services[idx]])]
    /\ events' = Append(events, Event("drain", Services[idx],
                                      RecvVal(handle[Services[idx]])))
    /\ IF idx < 3
       THEN idx' = idx + 1 /\ pc' = "drain"
       ELSE idx' = 1 /\ pc' = "done"
    /\ UNCHANGED <<clean, retries, cur, handle, svcCtx, sigc, panicked,
                   sigTaken>>

(* an arbitrary owner of the Services, calling Start, Stop and receiving    *)
(* under the contract of Start: one goroutine, no second Start before the  *)
(* previous run's completion was received                                  *)

InitService ==
    /\ clean \in BOOLEAN
    /\ pc = "client"
    /\ idx = 1
    /\ retries = R
    /\ cur = ""
    /\ handle = [s \in Svc |-> 0]
    /\ svcCtx = New
    /\ runs = <<>>
    /\ sigc = 0
    /\ panicked = FALSE
    /\ sigTaken = FALSE
    /\ events = <<>>
    /\ drained = [s \in Svc |-> "pending"]

\* errc := s.Start()
ClientStart(s) ==
    /\ Alive
    /\ pc = "client"
    /\ Len(runs) < MaxStarts
    /\ handle[s] = 0 \/ drained[s] # "pending"
    /\ runs' = StartRuns(s)
    /\ svcCtx' = StartCtx(s)
    /\ handle' = [handle EXCEPT ![s] = StartHandle(s)]
    /\ drained' = [drained EXCEPT ![s] = "pending"]
    /\ UNCHANGED <<clean, pc, idx, retries, cur, sigc, panicked, sigTaken,
                   events>>

\* s.Stop()
ClientStop(s) ==
    /\ Alive
    /\ pc = "client"
    /\ runs' = StopRuns(s)
    /\ panicked' = StopPanics(s)
    /\ UNCHANGED <<clean, pc, idx, retries, cur, handle, svcCtx, sigc,
                   sigTaken, events, drained>>

\* err := <-errc
ClientRecv(s) ==
    /\ Alive
    /\ pc = "client"
    /\ drained[s] = "pending"
    /\ CanRecv(handle[s])
    /\ runs' = RecvRuns(handle[s])
    /\ drained' = [drained EXCEPT ![s] = RecvVal(handle[s])]
    /\ UNCHANGED <<clean, pc, idx, retries, cur, handle, svcCtx, sigc,
                   panicked, sigTaken, events>>

MainStep ==
    \/ MainStart
    \/ MainNotify
    \/ \E s \in Svc : LoopRecv(s)
    \/ LoopRestart
    \/ LoopSignal
    \/ MainStop
    \/ MainDrain

WorkerStep(r) ==
    \/ WorkerBegin(r)
    \/ WorkerTimeout(r)
    \/ WorkerCancelled(r)
    \/ WorkerClose(r)

Next ==
    \/ MainStart
    \/ MainNotify
    \/ Signal
    \/ \E s \in Svc : LoopRecv(s)
    \/ LoopRestart
    \/ LoopSignal
    \/ MainStop
    \/ MainDrain
    \/ \E r \in RunIds : WorkerBegin(r)
    \/ \E r \in RunIds : WorkerTimeout(r)
    \/ \E r \in RunIds : WorkerCancelled(r)
    \/ \E r \in RunIds : WorkerClose(r)
    \/ Tick

Spec == Init /\ [][Next]_vars


\* every goroutine that can take a step eventually does
Step == MainStep \/ \E r \in RunIds : WorkerStep(r)

SpecFair == Spec /\ WF_vars(Step)

NextService ==
    \/ \E s \in Svc : ClientStart(s)
    \/ \E s \in Svc : ClientStop(s)
    \/ \E s \in Svc : ClientRecv(s)
    \/ \E r \in RunIds : WorkerBegin(r)
    \/ \E r \in RunIds : WorkerTimeout(r)
    \/ \E r \in RunIds : WorkerCancelled(r)
    \/ \E r \in RunIds : WorkerClose(r)
    \/ Tick

SpecService == InitService /\ [][NextService]_vars

(* the reference timing: a step of main or of a goroutine takes no time,   *)
(* so time passes only when all of them wait                               *)

TickTimed ==
    /\ ~ENABLED Step
    /\ Tick

NextTimed ==
    \/ MainStart
    \/ MainNotify
    \/ Signal
    \/ \E s \in Svc : LoopRecv(s)
    \/ LoopRestart
    \/ LoopSignal
    \/ MainStop
    \/ MainDrain
    \/ \E r \in RunIds : WorkerBegin(r)
    \/ \E r \in RunIds : WorkerTimeout(r)
    \/ \E r \in RunIds : WorkerCancelled(r)
    \/ \E r \in RunIds : WorkerClose(r)
    \/ TickTimed

SpecTimed == Init /\ [][NextTimed]_vars

\* timers fire: time does not stand still while a timer is pending
SpecFairTime == Spec /\ WF_vars(Step) /\ WF_vars(Tick)

----------------------------------------------------------------------------
(* properties *)

Indices(k) == {i \in 1..Len(events) : events[i].kind = k}
Count(k) == Cardinality(Indices(k))
RecvsUpTo(i) == Cardinality({j \in 1..i : events[j].kind = "recv"})
LoopEnded == pc \in {"stop", "drain", "done"}
Current(s) == runs[handle[s]]

\* C1: when the loop is not ended by a shutdown request it consumes exactly
\* R+1 completions: each of the first R is followed by a Start of the service
\* that completed, the (R+1)-th is followed by no Start but by the exit of the
\* loop, and no Start happens in the loop except after a completion.
RetryBudget ==
    ~sigTaken =>
        /\ Count("recv") <= R + 1
        /\ LoopEnded => Count("recv") = R + 1 /\ Count("restart") = R
        /\ \A i \in Indices("restart") :
              /\ i > 1
              /\ events[i - 1].kind = "recv"
              /\ events[i - 1].svc = events[i].svc
        /\ \A i \in Indices("recv") :
              i < Len(events) =>
                 IF RecvsUpTo(i) <= R
                 THEN events[i + 1] = Event("restart", events[i].svc, "nil")
                 ELSE events[i + 1].kind = "stop"

\* C1 witness: the loop has just been left on the budget, no signal around
RetryBudgetExhausted ==
    /\ pc = "stop" /\ idx = 1
    /\ ~sigTaken /\ sigc = 0
    /\ Count("recv") = R + 1 /\ Count("restart") = R

\* C2: the channel of every Start carries at most one value and is closed at
\* most once; a run ended by its timer has sent exactly one error before the
\* close, a run ended by cancellation has sent nothing; no value is pending
\* or sent on a closed channel, and no close panics.
OneTerminalOutcome ==
    /\ ~panicked
    /\ \A r \in RunIds :
          /\ runs[r].sends <= 1
          /\ runs[r].closes <= 1
          /\ runs[r].closed <=> runs[r].pc = "done"
          /\ runs[r].closed <=> runs[r].closes = 1
          /\ runs[r].pc \in {"start", "select", "send"} => runs[r].sends = 0
          /\ runs[r].pc = "send" => runs[r].outcome = "err"
          /\ runs[r].pc \in {"close", "done"} =>
                /\ runs[r].outcome \in {"err", "nil"}
                /\ runs[r].outcome = "err" => runs[r].sends = 1
                /\ runs[r].outcome = "nil" => runs[r].sends = 0

\* C2 witness: one run ended by timeout, one by cancellation, both closed
BothOutcomesClosed ==
    /\ \E r \in RunIds : runs[r].closed /\ runs[r].outcome = "err"
    /\ \E r \in RunIds : runs[r].closed /\ runs[r].outcome = "nil"

\* C3: no call of Stop crashes the process, whenever it is made.
StopNeverPanics == ~panicked

\* C4: once Stop was called on every service, the three final receives each
\* return an error or the closed-channel nil.
DrainReturns ==
    (pc = "drain") ~> (pc = "done" /\ \A s \in Svc : drained[s] \in {"err", "nil"})

\* C4 witness: drained after a was restarted twice and its third run was
\* consumed by the last iteration, while b timed out unconsumed
DrainedAfterRestarts ==
    /\ pc = "done"
    /\ Count("restart") = 2
    /\ \A i \in Indices("recv") : events[i].svc = "a"
    /\ drained["a"] = "nil"
    /\ drained["b"] = "err"

\* C5: when main returns, no goroutine of any run is still in its select or
\* blocked in its send; each is past run() and past errc <- err.
NoWorkerLeaked ==
    pc = "done" => \A r \in RunIds : runs[r].pc \in {"close", "done"}

\* C5 witness: main returned after five runs were started
AllFiveRunsOver ==
    /\ pc = "done"
    /\ Len(runs) = 3 + R

\* C6: once the select takes the signal, the loop is over: the signal is the
\* last event of the loop, followed directly by a.Stop(), with the budget
\* left as it was (R minus the completions consumed before).
ShutdownEndsLoop ==
    sigTaken =>
        /\ LoopEnded
        /\ Count("signal") = 1
        /\ retries = R - Count("recv")
        /\ \A i \in Indices("signal") :
              /\ \A j \in 1..Len(events) :
                    j > i => events[j].kind \in {"stop", "drain"}
              /\ i < Len(events) => events[i + 1] = Event("stop", "a", "nil")
        /\ Count("restart") = Count("recv")

\* C6 witness: the signal was taken with budget left and a.Stop() followed
ShutdownWithBudgetLeft ==
    /\ sigTaken
    /\ retries = 1
    /\ Count("stop") >= 1

\* C7: after a signal was delivered main does return, and it returns only
\* after Stop on all three services and all three final receives.
SignalLeadsToExit ==
    /\ (sigc > 0 \/ sigTaken) ~> (pc = "done")
    /\ [](pc = "done" =>
            /\ \A s \in Svc : drained[s] # "pending"
            /\ \A s \in Svc : \E i \in Indices("stop") : events[i].svc = s
            /\ Count("drain") = 3)

\* C7 witness: main returned after taking the signal
ExitedOnSignal ==
    /\ pc = "done"
    /\ sigTaken
    /\ Count("drain") = 3

\* C8: with -clean no run ends by its timer, the loop consumes no completion,
\* retries keeps its value and the loop ends only by the signal.
CleanNeverFails ==
    clean =>
        /\ \A r \in RunIds : runs[r].outcome # "err"
        /\ Count("recv") = 0
        /\ retries = R
        /\ LoopEnded => sigTaken

\* C9: a restart replaces the channel and the context of the restarted
\* service by new ones and leaves the channel, the context and the goroutine
\* of every other service (and every earlier run) as they were.
RestartFrame ==
    [][pc = "restart" /\ pc' # "restart" =>
          /\ handle'[cur] = Len(runs) + 1
          /\ svcCtx'[cur] = Len(runs) + 1
          /\ handle'[cur] # handle[cur]
          /\ Len(runs') = Len(runs) + 1
          /\ runs'[Len(runs')].svc = cur
          /\ \A s \in Svc \ {cur} :
                handle'[s] = handle[s] /\ svcCtx'[s] = svcCtx[s]
          /\ \A r \in RunIds : runs'[r] = runs[r]]_vars

\* C9 witness: b was restarted while a and c are still in their first run
RestartedBOnly ==
    /\ Count("restart") = 1
    /\ handle["b"] = 4
    /\ handle["a"] = 1 /\ Current("a").pc = "select"
    /\ handle["c"] = 3 /\ Current("c").pc = "select"

\* C10: when the first final receive begins, Stop was called on a, b and c,
\* so the context of each service's current run is cancelled, whatever the
\* run was doing; no Stop comes after a final receive.
StopAllBeforeDrain ==
    /\ pc \in {"drain", "done"} =>
          /\ \A s \in Svc : \E i \in Indices("stop") : events[i].svc = s
          /\ Count("stop") = 3
          /\ \A s \in Svc : svcCtx[s] = handle[s] /\ Current(s).cancelled
    /\ \A i \in Indices("stop") : \A j \in Indices("drain") : i < j
    /\ \A i \in Indices("stop") : LoopEnded

\* C10 witness: the first final receive is about to begin, with one service
\* still in its select, one blocked in its send, one consumed and closed
StoppedInEveryState ==
    /\ pc = "drain" /\ idx = 1
    /\ \E s \in Svc : Current(s).pc = "select"
    /\ \E s \in Svc : Current(s).pc = "send"
    /\ \E s \in Svc : Current(s).pc = "done"

RunsOf(s) == {r \in RunIds : runs[r].svc = s}
ActiveRuns(s) == {r \in RunsOf(s) : runs[r].pc \in {"start", "select"}}
ErrorReads(s) ==
    {i \in 1..Len(events) : /\ events[i].kind \in {"recv", "drain"}
                            /\ events[i].svc = s
                            /\ events[i].val = "err"}

\* C11: a service never has two goroutines before or inside the select of
\* run(): when Start is called again on a service, each earlier run of it
\* has ended by its timer and its error has been received.
OneActiveRun ==
    \A s \in Svc :
       /\ Cardinality(ActiveRuns(s)) <= 1
       /\ \A r1 \in RunsOf(s) : \A r2 \in RunsOf(s) :
             r1 < r2 => /\ runs[r1].pc \in {"close", "done"}
                        /\ runs[r1].outcome = "err"
                        /\ runs[r1].sends = 1

\* C11 witness: b restarted; its first goroutine still has close(errc) to do
\* while its second is in the select
OldRunClosingNewRunActive ==
    \E r1 \in RunsOf("b") : \E r2 \in RunsOf("b") :
       r1 < r2 /\ runs[r1].pc = "close" /\ runs[r2].pc = "select"

\* C12: retries is R minus the completions the loop has consumed (the
\* decrement of an iteration comes after its restart), whether or not a
\* signal was taken; so at most R restarts and at most 3 + R calls of Start
\* happen, counted over all services together.
OneSharedBudget ==
    /\ retries = R - Count("recv") + (IF pc = "restart" THEN 1 ELSE 0)
    /\ retries <= R
    /\ retries >= -1
    /\ Count("restart") <= R
    /\ Count("restart") <= Count("recv")
    /\ Len(runs) <= 3 + R
    /\ Len(runs) = (IF pc = "start" THEN idx - 1 ELSE 3) + Count("restart")

\* C12 witness: the budget spent on two different services
BudgetSpentOnTwoServices ==
    /\ retries = -1
    /\ Len(runs) = 3 + R
    /\ \E i \in Indices("restart") : events[i].svc = "a"
    /\ \E i \in Indices("restart") : events[i].svc = "b"

\* C13: per service, the reads that returned an error are as many as the
\* runs that sent one, and no run sends twice; the final receive on the
\* channel the last iteration of the loop consumed returns nil.
NoErrorTwice ==
    /\ \A r \in RunIds : runs[r].sends <= 1
    /\ \A s \in Svc :
          Cardinality(ErrorReads(s)) =
             Cardinality({r \in RunsOf(s) : runs[r].sends = 1})
    /\ \A i \in Indices("recv") :
          RecvsUpTo(i) = R + 1 => drained[events[i].svc] \in {"pending", "nil"}

\* C13 witness: main returned; b was consumed by the last iteration and its
\* final receive returned nil, c's error was first read by the final receive
LastConsumedDrainsNil ==
    /\ pc = "done"
    /\ \E i \in Indices("recv") : RecvsUpTo(i) = R + 1 /\ events[i].svc = "b"
    /\ drained["b"] = "nil"
    /\ drained["c"] = "err"

\* C16: a run that produced an error took the timer case (its timer had
\* expired) and is the only kind that sends; a run that produced none took
\* the cancellation case (its context was cancelled) and sends nothing; with
\* the timer expired and the context cancelled both cases can be taken, and
\* nothing panics.
RunOutcome ==
    /\ ~panicked
    /\ \A r \in RunIds :
          /\ runs[r].outcome = "none" <=> runs[r].pc \in {"start", "select"}
          /\ runs[r].outcome = "err" => runs[r].remaining = 0
          /\ runs[r].outcome = "nil" =>
                /\ runs[r].ctx # 0
                /\ runs[runs[r].ctx].cancelled
                /\ runs[r].sends = 0
                /\ runs[r].pc \in {"close", "done"}
          /\ runs[r].sends = 1 => runs[r].outcome = "err"
          /\ runs[r].pc = "send" => runs[r].outcome = "err"
          /\ (/\ Alive
              /\ runs[r].pc = "select"
              /\ runs[r].remaining = 0
              /\ runs[r].ctx # 0
              /\ runs[runs[r].ctx].cancelled)
                => ENABLED WorkerTimeout(r) /\ ENABLED WorkerCancelled(r)

\* C16 witness: a run whose timer had expired ended by cancellation, and a
\* run whose context is cancelled ended by its timer
RaceResolvedBothWays ==
    /\ \E r \in RunIds : /\ runs[r].remaining = 0
                         /\ runs[r].outcome = "nil"
    /\ \E r \in RunIds : /\ runs[r].cancelled
                         /\ runs[r].outcome = "err"

\* C18: a goroutine blocked in errc <- err leaves the send only by a receive
\* of main on its channel that returns the error, whether or not its context
\* is cancelled; an error run that has closed its channel has sent.
BlockedUntilRead ==
    /\ [](\A r \in RunIds :
             runs[r].outcome = "err" /\ runs[r].pc \in {"close", "done"}
                => runs[r].sends = 1)
    /\ [][\A r \in RunIds :
             runs[r].pc = "send" =>
                \/ runs'[r].pc = "send" /\ runs'[r].sends = 0
                \/ /\ runs'[r].pc = "close"
                   /\ runs'[r].sends = 1
                   /\ handle[runs[r].svc] = r
                   /\ Len(events') = Len(events) + 1
                   /\ events'[Len(events')].kind \in {"recv", "drain"}
                   /\ events'[Len(events')].svc = runs[r].svc
                   /\ events'[Len(events')].val = "err"]_vars

\* C18 witness: Stop was called on every service and a goroutine is still
\* blocked in its send
StoppedButStillSending ==
    /\ pc = "drain"
    /\ \E r \in RunIds : runs[r].pc = "send" /\ runs[r].cancelled

\* C19: s.ctx and the channel main holds for s come from the same, latest
\* Start of s; every goroutine waits on the context of its own Start; no
\* context is cancelled before the loop has ended, and then only that of a
\* current run; a run ends by cancellation only if its own context is
\* cancelled.
TokenMatchesHandle ==
    /\ \A s \in Svc :
          /\ svcCtx[s] = handle[s]
          /\ handle[s] # 0 =>
                /\ runs[handle[s]].svc = s
                /\ \A r \in RunsOf(s) : r <= handle[s]
    /\ \A r \in RunIds :
          /\ runs[r].pc # "start" => runs[r].ctx = r
          /\ runs[r].cancelled => LoopEnded /\ handle[runs[r].svc] = r
          /\ runs[r].outcome = "nil" => runs[r].cancelled

\* C19 witness: the run of a restart was ended by the Stop of the shutdown
\* and the final receive on its channel returned nil
StopReachedRestartedRun ==
    /\ pc = "done"
    /\ \E s \in Svc : /\ handle[s] > 3
                      /\ Current(s).outcome = "nil"
                      /\ drained[s] = "nil"

\* C20: every completion the loop consumed is an error; while the loop runs
\* no Stop was called and no context is cancelled, and each time the select
\* is entered none of the three channels has been consumed or closed.
LoopConsumesErrorsOnly ==
    /\ \A i \in Indices("recv") : events[i].val = "err"
    /\ ~LoopEnded => /\ Count("stop") = 0
                     /\ \A r \in RunIds : ~runs[r].cancelled
    /\ pc = "loop" => \A s \in Svc : /\ Current(s).sends = 0
                                     /\ ~Current(s).closed

\* C20 witness: the loop was left on the budget, holding the channel its
\* last iteration consumed
LeftLoopWithConsumedHandle ==
    /\ pc = "stop" /\ idx = 1
    /\ Count("recv") = R + 1
    /\ \E s \in Svc : Current(s).sends = 1

\* seconds since the timer of c's first run was armed, which under the
\* reference timing is the time since the program started, for as long as
\* that timer is pending
Elapsed ==
    IF Len(runs) >= 3 /\ runs[3].remaining >= 0
    THEN FailAfter("c") - runs[3].remaining
    ELSE 0

IsPrefix(p, q) == Len(p) <= Len(q) /\ \A i \in 1..Len(p) : p[i] = q[i]

Scenario ==
    << Event("recv", "b", "err"), Event("restart", "b", "nil"),
       Event("recv", "a", "err"), Event("restart", "a", "nil"),
       Event("recv", "b", "err"),
       Event("stop", "a", "nil"), Event("stop", "b", "nil"),
       Event("stop", "c", "nil"),
       Event("drain", "a", "nil"), Event("drain", "b", "nil"),
       Event("drain", "c", "nil") >>

\* the time at which main can be with n events of the scenario behind it
ScenarioTime(n) ==
    CASE n = 0 -> {0, 2}
      [] n = 1 -> {2}
      [] n = 2 -> {2, 3}
      [] n = 3 -> {3}
      [] n = 4 -> {3, 4}
      [] OTHER -> {4}

\* C14: without -clean and without a signal, under the reference timing,
\* main does exactly: receive b's error at 2 s and restart b, receive a's
\* error at 3 s and restart a, receive b's error at 4 s, Stop a, b, c, and
\* three final receives that return nil; c's channel is not read in the loop.
ReferenceScenario ==
    (~clean /\ sigc = 0 /\ ~sigTaken) =>
        /\ IsPrefix(events, Scenario)
        /\ Elapsed \in ScenarioTime(Len(events))
        /\ pc = "done" => /\ events = Scenario
                          /\ \A s \in Svc : drained[s] = "nil"

\* C14 witness: main returned at 4 s with the whole scenario behind it
ScenarioCompleted ==
    /\ ~clean /\ sigc = 0 /\ ~sigTaken
    /\ pc = "done"
    /\ events = Scenario
    /\ Elapsed = 4

\* C15: with -clean, a signal taken before the 1000 hours are over finds
\* the three first runs still before or in their select and nothing
\* consumed or restarted; main then calls Stop on a, b, c, every run ends by
\* the cancellation case and the three final receives return nil.
CleanShutdown ==
    (clean /\ sigTaken /\ Elapsed < CleanTimeout) =>
        /\ Len(runs) = 3
        /\ Count("recv") = 0 /\ Count("restart") = 0
        /\ \A r \in RunIds : runs[r].outcome # "err"
        /\ (pc = "stop" /\ idx = 1) =>
              \A r \in RunIds : runs[r].pc \in {"start", "select"}
        /\ IsPrefix(events,
                    << Event("signal", "", "nil"),
                       Event("stop", "a", "nil"), Event("stop", "b", "nil"),
                       Event("stop", "c", "nil"),
                       Event("drain", "a", "nil"), Event("drain", "b", "nil"),
                       Event("drain", "c", "nil") >>)
        /\ pc = "done" => /\ \A r \in RunIds : runs[r].outcome = "nil"
                          /\ \A s \in Svc : drained[s] = "nil"

\* C15 witness: main returned after a signal in -clean mode, all three
\* services stopped by cancellation
CleanShutdownCompleted ==
    /\ clean /\ sigTaken /\ Elapsed < CleanTimeout
    /\ pc = "done"
    /\ \A s \in Svc : Current(s).outcome = "nil" /\ drained[s] = "nil"

\* C17: without -clean main always returns, provided goroutines that can
\* step do step and pending timers fire.
DefaultModeTerminates == (~clean) ~> (pc = "done")

\* C17 witness: main returned without -clean and without any signal
TerminatedWithoutSignal ==
    /\ ~clean /\ sigc = 0 /\ ~sigTaken
    /\ pc = "done"
    /\ Count("drain") = 3

====
